---- MODULE Spec2Model ----
(***************************************************************************)
(* Model of the multipart downloader of main.go: the HEAD probe            *)
(* (getRangeDetails), the orchestration (Download, processSingle,          *)
(* processMultiple), the fetch goroutines (downloadFileForRange), the      *)
(* combiner (combineChunks) and the progress goroutine (progress) with the *)
(* consumer of its channel (run).                                          *)
(*                                                                         *)
(* The resource on the server is the byte sequence 1, 2, ..., resLen: the  *)
(* byte at 0-based position p is p+1, so a lost, duplicated or reordered   *)
(* byte always shows in the output file.                                   *)
(***************************************************************************)
EXTENDS Integers, Sequences, FiniteSets, TLC

\* ------------------------------------------------------------------ bounds

\* Largest resource length of the concurrent model.
MaxLen == 4
\* Largest configured worker count of the concurrent model.
MaxWorkers == 2
\* Largest resource length / worker count of the planner-only model.
MaxPlanLen == 12
MaxPlanWorkers == 4
\* Largest total length / buffer length / buffer count of the sampler-only model.
MaxSampleLen == 4
MaxSampleChunks == 3

\* --------------------------------------------------------- program constants

\* The sample file of the README: its last byte is 1822198.
ReadmeLength == 1822199
\* Default of the --workers-count flag.
DefaultWorkers == 5
\* bytes.MinRead: io.Copy into a bytes.Buffer (Buffer.ReadFrom) first grows the
\* buffer's slice by MinRead and then cuts it back to the bytes really read.
MinRead == 512
\* The body of an error response: one byte that is no byte of the resource.
ErrorBody == << 0 >>

VARIABLES
    resLen,            \* length of the resource on the server
    head,              \* what the server answers to the HEAD request
    workersCount,      \* d.workersCount
    progressEnabled,   \* d.progressEnabled
    dlPc,              \* where Download (and the function it called) stands
    contentLength,     \* contentLength as getRangeDetails returned it
    isMultipartSupported,
    startRange,        \* processMultiple: loop variable startRange
    index,             \* processMultiple: loop variable index
    ranges,            \* the _range values handed out, in launch order
    wgCounter,         \* the sync.WaitGroup counter
    wPc,               \* per launched goroutine: where downloadFileForRange stands
    wResp,             \* per fetch: what the GET was answered with
    chunks,            \* d.chunks: index -> bytes.Buffer [buf, off]
    combineI,          \* combineChunks: loop variable i
    file,              \* content of the output file
    result,            \* what Download returned
    panicked,          \* a goroutine panicked: the process is gone
    ctxDone,           \* cancel() was called on the sampler's context
    samplerPc,         \* where progress() stands
    samplerK,          \* progress(): position of the range over d.chunks
    totalDownloaded,   \* progress(): local totalDownloaded
    consumer,          \* the receiver of ConsumeProgress()
    lastSample         \* the last value received from the progress channel

vars == << resLen, head, workersCount, progressEnabled, dlPc, contentLength,
           isMultipartSupported, startRange, index, ranges, wgCounter, wPc, wResp,
           chunks, combineI, file, result, panicked, ctxDone, samplerPc, samplerK,
           totalDownloaded, consumer, lastSample >>

\* ----------------------------------------------------------------- helpers

Min(a, b) == IF a < b THEN a ELSE b

Abs(a) == IF a < 0 THEN -a ELSE a

Pow2(n) == 2 ^ n

\* The resource: byte p+1 at 0-based position p.
Resource == [i \in 1..resLen |-> i]

\* A zero bytes.Buffer, and a buffer holding the bytes b.
EmptyBuffer == [buf |-> << >>, off |-> 0]

\* len(d.chunks); d.chunks is indexed from 0.
LenChunks == Cardinality(DOMAIN chunks)

\* bytes.Buffer.Len(): len(b.buf) - b.off.
BufLen(b) == Len(b.buf) - b.off

\* ------------------------------------------------------ float32 arithmetic
\* A positive float32 is kept as [m, e]: the value m / 2^e with a 24 bit
\* significand 2^23 <= m < 2^24. Operands here are integers below 2^24, which
\* float32(int) converts exactly.

\* Round n / d to the nearest integer, ties to even.
RoundHalfEven(n, d) ==
    LET q == n \div d
        r == n % d
    IN  IF 2 * r > d \/ (2 * r = d /\ q % 2 = 1) THEN q + 1 ELSE q

\* The exponent e with 2^23 <= (a * 2^e) / b, starting from numerator n = a * 2^e.
RECURSIVE F32Scale(_, _, _)
F32Scale(n, b, e) == IF n \div b >= Pow2(23) THEN e ELSE F32Scale(2 * n, b, e + 1)

\* float32(a) / float32(b) for integers a >= 1, b >= 1, a / b < 2^24.
F32Div(a, b) ==
    LET e == F32Scale(a, b, 0)
        m == RoundHalfEven(a * Pow2(e), b)
    IN  IF m = Pow2(24) THEN [m |-> Pow2(23), e |-> e - 1] ELSE [m |-> m, e |-> e]

\* x * 100 in float32: the exact product m * 100 / 2^e, rounded to 24 bits.
F32Mul100(x) ==
    LET n == x.m * 100
        s == IF n \div Pow2(6) < Pow2(24) THEN 6 ELSE 7
        m == RoundHalfEven(n, Pow2(s))
    IN  IF m = Pow2(24) THEN [m |-> Pow2(23), e |-> x.e - s - 1]
        ELSE [m |-> m, e |-> x.e - s]

\* int(x): truncation toward zero.
F32Trunc(x) == IF x.e >= 0 THEN x.m \div Pow2(x.e) ELSE x.m * Pow2(-x.e)

\* int((float32(n) / float32(total)) * 100) for total >= 1.
Percent(n, total) ==
    IF n = 0 THEN 0
    ELSE LET t == F32Trunc(F32Mul100(F32Div(Abs(n), total)))
         IN  IF n < 0 THEN -t ELSE t


\* What int(x) yields for a NaN or infinite x (totalLen = 0) is implementation
\* dependent in Go: the smallest integer (amd64), zero or the largest integer
\* (arm64). -2^24 and 2^24 stand for the two out-of-range results.
ImplDependentInts == {-Pow2(24), 0, Pow2(24)}

\* The values int((float32(chunk.Len()) / float32(totalLen)) * 100) can take.
TermSet(n, total) == IF total = 0 THEN ImplDependentInts ELSE {Percent(n, total)}

\* if totalDownloaded > 100 { totalDownloaded = 100 }
Clamp(t) == IF t > 100 THEN 100 ELSE t

\* ------------------------------------------------------------ range planner

\* partLength := contentLength / d.workersCount
PartLength == contentLength \div workersCount

\* EndRange with a fault: the end taken as exclusive, one byte short of the next
\* start.
EndRange_Exclusive(start) ==
    IF start + PartLength > contentLength THEN contentLength
    ELSE start + PartLength - 1

\* endRange := startRange + partLength, cut to contentLength.
EndRange(start) ==
    IF start + PartLength > contentLength THEN contentLength ELSE start + PartLength

\* NextStart with a fault: the step without the + 1, so that the next range starts
\* on the last byte of the one before.
NextStart_NoSkip(start) == start + PartLength

\* startRange += partLength + 1
NextStart(start) == start + PartLength + 1

\* WgDelta with a fault: one goroutine too few is waited for.
WgDelta_OneShort == workersCount - 1

\* wg.Add(d.workersCount)
WgDelta == workersCount

\* NextIndex with a fault: the index is not advanced, every goroutine gets
\* buffer 0.
NextIndex_Stuck(i) == i

\* index++
NextIndex(i) == i + 1

\* wg.Wait() returns when the counter is zero.
JoinPassed == wgCounter = 0

\* ------------------------------------------------------------------ server

\* The body a server that honours Range sends for bytes=start-end: the bytes
\* start .. min(end, last byte); 416 with an error body when start is past the end.
ServerRange(start, end) ==
    IF start >= resLen THEN ErrorBody
    ELSE SubSeq(Resource, start + 1, Min(end, resLen - 1) + 1)

\* The body of the response to worker j's GET.
Body(j) ==
    IF wResp[j] = "error_status" THEN ErrorBody
    ELSE ServerRange(ranges[j].start, ranges[j].end)

\* The body of the response to processSingle's GET (no Range header).
SingleBody == IF wResp[1] = "error_status" THEN ErrorBody ELSE Resource

\* The answers to HEAD: a transport error, or a status with the Content-Length
\* header (parsable or not) and the Accept-Ranges header.
HeadResponses ==
    { [err |-> TRUE,  status |-> 0,   length |-> FALSE, acceptRanges |-> ""],
      [err |-> FALSE, status |-> 404, length |-> TRUE,  acceptRanges |-> "bytes"],
      [err |-> FALSE, status |-> 200, length |-> FALSE, acceptRanges |-> "bytes"],
      [err |-> FALSE, status |-> 200, length |-> TRUE,  acceptRanges |-> "bytes"],
      [err |-> FALSE, status |-> 200, length |-> TRUE,  acceptRanges |-> "none"],
      [err |-> FALSE, status |-> 206, length |-> TRUE,  acceptRanges |-> ""] }

\* ----------------------------------------------------------------- states

\* Nothing has run yet: no range handed out, no goroutine, no output, no sample.
NoActivity ==
    /\ startRange = 0
    /\ index = 0
    /\ ranges = << >>
    /\ wgCounter = 0
    /\ wPc = << >>
    /\ wResp = << >>
    /\ combineI = 0
    /\ file = << >>
    /\ result = "none"
    /\ panicked = FALSE
    /\ ctxDone = FALSE
    /\ samplerK = 0
    /\ totalDownloaded = 0
    /\ lastSample = {}

\* make([]bytes.Buffer, workersCount)
NewChunks == [i \in 0..(workersCount - 1) |-> EmptyBuffer]

\* NewDownloader, WithProgress and run: W empty buffers, no goroutine running
\* but the consumer of the progress channel, which run starts when progress is
\* enabled.
Fresh ==
    /\ dlPc = "start"
    /\ contentLength = 0
    /\ isMultipartSupported = FALSE
    /\ chunks = NewChunks
    /\ samplerPc = "idle"
    /\ consumer = IF progressEnabled THEN "ranging" ELSE "none"
    /\ NoActivity

Init ==
    /\ resLen \in 0..MaxLen
    /\ head \in HeadResponses
    /\ workersCount \in 1..MaxWorkers
    /\ progressEnabled \in BOOLEAN
    /\ Fresh

\* Return with a fault: before returning, Download hands a last sample to the
\* consumer over the unbuffered channel, which waits for a receiver.
Return_AfterLastSample(res) ==
    /\ progressEnabled => consumer = "ranging"
    /\ dlPc' = "returned"
    /\ result' = res
    /\ ctxDone' = (samplerPc # "idle")

\* Download returns res; the deferred cancel() runs when the sampler was started.
Return(res) ==
    /\ dlPc' = "returned"
    /\ result' = res
    /\ ctxDone' = (samplerPc # "idle")

\* ------------------------------------------------------------ getRangeDetails

StatusOK(status) == status = 200 \/ status = 206

\* getRangeDetails returns a non-nil error: client.Head failed, or Atoi could not
\* parse Content-Length. For a status other than 200 and 206 it returns err,
\* which is nil at that point.
ProbeError == head.err \/ (StatusOK(head.status) /\ ~head.length)

\* The contentLength getRangeDetails returns.
ProbeLength == IF StatusOK(head.status) /\ head.length THEN resLen ELSE 0

\* ProbeMultipart with a fault: any Accept-Ranges header counts, whatever its
\* value.
ProbeMultipart_AnyValue ==
    StatusOK(head.status) /\ head.length /\ head.acceptRanges # ""

\* The bool getRangeDetails returns.
ProbeMultipart ==
    StatusOK(head.status) /\ head.length /\ head.acceptRanges = "bytes"

\* ------------------------------------------------------------------ Download

\* Download: getRangeDetails returned an error.
ProbeFails ==
    /\ ~panicked /\ dlPc = "start"
    /\ ProbeError
    /\ Return("error")
    /\ UNCHANGED << resLen, head, workersCount, progressEnabled, contentLength,
                    isMultipartSupported, startRange, index, ranges, wgCounter, wPc,
                    wResp, chunks, combineI, file, panicked, samplerPc, samplerK,
                    totalDownloaded, consumer, lastSample >>

\* Download: getRangeDetails returned without error.
ProbeReturns ==
    /\ ~panicked /\ dlPc = "start"
    /\ ~ProbeError
    /\ dlPc' = "probed"
    /\ contentLength' = ProbeLength
    /\ isMultipartSupported' = ProbeMultipart
    /\ UNCHANGED << resLen, head, workersCount, progressEnabled, startRange, index,
                    ranges, wgCounter, wPc, wResp, chunks, combineI, file, result,
                    panicked, ctxDone, samplerPc, samplerK, totalDownloaded, consumer,
                    lastSample >>

\* Download: go d.progress(ctx, contentLength) when progress is enabled, then the
\* choice between processMultiple and processSingle.
Dispatch ==
    /\ ~panicked /\ dlPc = "probed"
    /\ samplerPc' = IF progressEnabled THEN "select" ELSE samplerPc
    /\ dlPc' = IF isMultipartSupported /\ workersCount > 1 THEN "multi" ELSE "single"
    /\ UNCHANGED << resLen, head, workersCount, progressEnabled, contentLength,
                    isMultipartSupported, startRange, index, ranges, wgCounter, wPc,
                    wResp, chunks, combineI, file, result, panicked, ctxDone, samplerK,
                    totalDownloaded, consumer, lastSample >>

\* ------------------------------------------------------------- processSingle

\* processSingle: client.Do fails, response is nil and
\* defer response.Body.Close() dereferences it.
SingleDoFails ==
    /\ ~panicked /\ dlPc = "single"
    /\ panicked' = TRUE
    /\ chunks' = [chunks EXCEPT ![0] = EmptyBuffer]
    /\ UNCHANGED << resLen, head, workersCount, progressEnabled, dlPc, contentLength,
                    isMultipartSupported, startRange, index, ranges, wgCounter, wPc,
                    wResp, combineI, file, result, ctxDone, samplerPc, samplerK,
                    totalDownloaded, consumer, lastSample >>

\* processSingle: d.chunks[0] = bytes.Buffer{} and the GET is answered, with
\* the resource or with an error status and its body.
SingleDo ==
    /\ ~panicked /\ dlPc = "single"
    /\ \E resp \in {"ok", "error_status"} : wResp' = << resp >>
    /\ chunks' = [chunks EXCEPT ![0] = EmptyBuffer]
    /\ dlPc' = "single_copy"
    /\ UNCHANGED << resLen, head, workersCount, progressEnabled, contentLength,
                    isMultipartSupported, startRange, index, ranges, wgCounter, wPc,
                    combineI, file, result, panicked, ctxDone, samplerPc, samplerK,
                    totalDownloaded, consumer, lastSample >>

\* io.Copy(&d.chunks[0], response.Body): one more byte arrives.
SingleCopy ==
    /\ ~panicked /\ dlPc = "single_copy"
    /\ Len(chunks[0].buf) < Len(SingleBody)
    /\ chunks' = [chunks EXCEPT
                    ![0].buf = Append(@, SingleBody[Len(chunks[0].buf) + 1])]
    /\ UNCHANGED << resLen, head, workersCount, progressEnabled, dlPc, contentLength,
                    isMultipartSupported, startRange, index, ranges, wgCounter, wPc,
                    wResp, combineI, file, result, panicked, ctxDone, samplerPc,
                    samplerK, totalDownloaded, consumer, lastSample >>

\* io.Copy returns at the end of the body; processSingle calls combineChunks.
SingleCopyEOF ==
    /\ ~panicked /\ dlPc = "single_copy"
    /\ Len(chunks[0].buf) = Len(SingleBody)
    /\ dlPc' = "combine"
    /\ UNCHANGED << resLen, head, workersCount, progressEnabled, contentLength,
                    isMultipartSupported, startRange, index, ranges, wgCounter, wPc,
                    wResp, chunks, combineI, file, result, panicked, ctxDone,
                    samplerPc, samplerK, totalDownloaded, consumer, lastSample >>

\* io.Copy returns a read error before the end of the body: it is printed and
\* processSingle calls combineChunks.
SingleCopyErr ==
    /\ ~panicked /\ dlPc = "single_copy"
    /\ Len(chunks[0].buf) < Len(SingleBody)
    /\ wResp' = << "read_error" >>
    /\ dlPc' = "combine"
    /\ UNCHANGED << resLen, head, workersCount, progressEnabled, contentLength,
                    isMultipartSupported, startRange, index, ranges, wgCounter, wPc,
                    chunks, combineI, file, result, panicked, ctxDone, samplerPc,
                    samplerK, totalDownloaded, consumer, lastSample >>

\* ----------------------------------------------------------- processMultiple

\* processMultiple up to the loop: partLength, wg.Add(d.workersCount),
\* startRange, index := 0, 0.
ProcessMultipleStart ==
    /\ ~panicked /\ dlPc = "multi"
    /\ wgCounter' = wgCounter + WgDelta
    /\ startRange' = 0
    /\ index' = 0
    /\ dlPc' = "loop"
    /\ UNCHANGED << resLen, head, workersCount, progressEnabled, contentLength,
                    isMultipartSupported, ranges, wPc, wResp, chunks, combineI, file,
                    result, panicked, ctxDone, samplerPc, samplerK, totalDownloaded,
                    consumer, lastSample >>

\* One iteration of the loop: the range startRange-endRange goes to a new
\* goroutine together with index.
LaunchWorker ==
    /\ ~panicked /\ dlPc = "loop"
    /\ startRange < contentLength
    /\ ranges' = Append(ranges, [start |-> startRange, end |-> EndRange(startRange),
                                 index |-> index])
    /\ wPc' = Append(wPc, "started")
    /\ wResp' = Append(wResp, "none")
    /\ index' = NextIndex(index)
    /\ startRange' = NextStart(startRange)
    /\ UNCHANGED << resLen, head, workersCount, progressEnabled, dlPc, contentLength,
                    isMultipartSupported, wgCounter, chunks, combineI, file, result,
                    panicked, ctxDone, samplerPc, samplerK, totalDownloaded, consumer,
                    lastSample >>

\* The loop condition startRange < contentLength fails: on to wg.Wait().
LoopExit ==
    /\ ~panicked /\ dlPc = "loop"
    /\ ~(startRange < contentLength)
    /\ dlPc' = "wait"
    /\ UNCHANGED << resLen, head, workersCount, progressEnabled, contentLength,
                    isMultipartSupported, startRange, index, ranges, wgCounter, wPc,
                    wResp, chunks, combineI, file, result, panicked, ctxDone,
                    samplerPc, samplerK, totalDownloaded, consumer, lastSample >>

\* wg.Wait() returns; err is still nil, so combineChunks is called.
WaitReturns ==
    /\ ~panicked /\ dlPc = "wait"
    /\ JoinPassed
    /\ dlPc' = "combine"
    /\ UNCHANGED << resLen, head, workersCount, progressEnabled, contentLength,
                    isMultipartSupported, startRange, index, ranges, wgCounter, wPc,
                    wResp, chunks, combineI, file, result, panicked, ctxDone,
                    samplerPc, samplerK, totalDownloaded, consumer, lastSample >>

\* ------------------------------------------------------ downloadFileForRange

\* client.Do fails, response is nil and defer response.Body.Close()
\* dereferences it: the goroutine panics.
WorkerDoFails(j) ==
    /\ ~panicked /\ wPc[j] = "started"
    /\ panicked' = TRUE
    /\ UNCHANGED << resLen, head, workersCount, progressEnabled, dlPc, contentLength,
                    isMultipartSupported, startRange, index, ranges, wgCounter, wPc,
                    wResp, chunks, combineI, file, result, ctxDone, samplerPc,
                    samplerK, totalDownloaded, consumer, lastSample >>

\* The GET with Range: bytes=<_range> is answered, with the bytes of the range
\* or with an error status and its body; d.chunks[index] = bytes.Buffer{}, which
\* panics for an index outside d.chunks.
WorkerDo(j) ==
    /\ ~panicked /\ wPc[j] = "started"
    /\ \E resp \in {"ok", "error_status"} : wResp' = [wResp EXCEPT ![j] = resp]
    /\ IF ranges[j].index \in DOMAIN chunks
       THEN /\ chunks' = [chunks EXCEPT ![ranges[j].index] = EmptyBuffer]
            /\ wPc' = [wPc EXCEPT ![j] = "copying"]
            /\ UNCHANGED panicked
       ELSE /\ panicked' = TRUE
            /\ UNCHANGED << chunks, wPc >>
    /\ UNCHANGED << resLen, head, workersCount, progressEnabled, dlPc, contentLength,
                    isMultipartSupported, startRange, index, ranges, wgCounter,
                    combineI, file, result, ctxDone, samplerPc, samplerK,
                    totalDownloaded, consumer, lastSample >>

\* io.Copy(&d.chunks[index], response.Body): one more byte arrives.
WorkerCopy(j) ==
    /\ ~panicked /\ wPc[j] = "copying"
    /\ LET c == chunks[ranges[j].index]
       IN  /\ Len(c.buf) < Len(Body(j))
           /\ chunks' = [chunks EXCEPT
                           ![ranges[j].index].buf = Append(@, Body(j)[Len(c.buf) + 1])]
    /\ UNCHANGED << resLen, head, workersCount, progressEnabled, dlPc, contentLength,
                    isMultipartSupported, startRange, index, ranges, wgCounter, wPc,
                    wResp, combineI, file, result, panicked, ctxDone, samplerPc,
                    samplerK, totalDownloaded, consumer, lastSample >>

\* The goroutine returns and the deferred wg.Done() runs, which panics on a
\* negative counter.
WorkerReturns(j) ==
    /\ wPc' = [wPc EXCEPT ![j] = "done"]
    /\ wgCounter' = wgCounter - 1
    /\ panicked' = (wgCounter - 1 < 0)

\* io.Copy returns at the end of the body.
WorkerCopyEOF(j) ==
    /\ ~panicked /\ wPc[j] = "copying"
    /\ Len(chunks[ranges[j].index].buf) = Len(Body(j))
    /\ WorkerReturns(j)
    /\ UNCHANGED << resLen, head, workersCount, progressEnabled, dlPc, contentLength,
                    isMultipartSupported, startRange, index, ranges, wResp, chunks,
                    combineI, file, result, ctxDone, samplerPc, samplerK,
                    totalDownloaded, consumer, lastSample >>

\* io.Copy returns a read error before the end of the body: it is printed.
WorkerCopyErr(j) ==
    /\ ~panicked /\ wPc[j] = "copying"
    /\ Len(chunks[ranges[j].index].buf) < Len(Body(j))
    /\ wResp' = [wResp EXCEPT ![j] = "read_error"]
    /\ WorkerReturns(j)
    /\ UNCHANGED << resLen, head, workersCount, progressEnabled, dlPc, contentLength,
                    isMultipartSupported, startRange, index, ranges, chunks,
                    combineI, file, result, ctxDone, samplerPc, samplerK,
                    totalDownloaded, consumer, lastSample >>

\* ------------------------------------------------------------- combineChunks

\* os.Getwd or os.Create fails: combineChunks, and Download, return the error.
CombineCreateFails ==
    /\ ~panicked /\ dlPc = "combine"
    /\ Return("error")
    /\ UNCHANGED << resLen, head, workersCount, progressEnabled, contentLength,
                    isMultipartSupported, startRange, index, ranges, wgCounter, wPc,
                    wResp, chunks, combineI, file, panicked, samplerPc, samplerK,
                    totalDownloaded, consumer, lastSample >>

\* os.Create creates or truncates the output file; i := 0.
CombineCreate ==
    /\ ~panicked /\ dlPc = "combine"
    /\ file' = << >>
    /\ combineI' = 0
    /\ dlPc' = "write"
    /\ UNCHANGED << resLen, head, workersCount, progressEnabled, contentLength,
                    isMultipartSupported, startRange, index, ranges, wgCounter, wPc,
                    wResp, chunks, result, panicked, ctxDone, samplerPc, samplerK,
                    totalDownloaded, consumer, lastSample >>

\* Unread with a fault: the slice starts one byte late, b.buf[b.off+1:].
Unread_SkipFirst(b) == SubSeq(b.buf, b.off + 2, Len(b.buf))

\* The unread bytes of a buffer: b.buf[b.off:].
Unread(b) == SubSeq(b.buf, b.off + 1, Len(b.buf))

\* d.chunks[i].WriteTo(output), first part: when the buffer is not empty its
\* unread bytes are written and b.off moves past them.
CombineWrite ==
    /\ ~panicked /\ dlPc = "write"
    /\ combineI < LenChunks
    /\ LET c == chunks[combineI]
       IN  IF BufLen(c) > 0
           THEN /\ file' = file \o Unread(c)
                /\ chunks' = [chunks EXCEPT ![combineI].off = @ + BufLen(c)]
           ELSE UNCHANGED << file, chunks >>
    /\ dlPc' = "reset_buf"
    /\ UNCHANGED << resLen, head, workersCount, progressEnabled, contentLength,
                    isMultipartSupported, startRange, index, ranges, wgCounter, wPc,
                    wResp, combineI, result, panicked, ctxDone, samplerPc, samplerK,
                    totalDownloaded, consumer, lastSample >>

\* The write to the output file fails: combineChunks, and Download, return the
\* error.
CombineWriteFails ==
    /\ ~panicked /\ dlPc = "write"
    /\ combineI < LenChunks
    /\ BufLen(chunks[combineI]) > 0
    /\ Return("error")
    /\ UNCHANGED << resLen, head, workersCount, progressEnabled, contentLength,
                    isMultipartSupported, startRange, index, ranges, wgCounter, wPc,
                    wResp, chunks, combineI, file, panicked, samplerPc, samplerK,
                    totalDownloaded, consumer, lastSample >>

\* WriteTo, b.Reset(), first store: b.buf = b.buf[:0].
CombineResetBuf ==
    /\ ~panicked /\ dlPc = "reset_buf"
    /\ chunks' = [chunks EXCEPT ![combineI].buf = << >>]
    /\ dlPc' = "reset_off"
    /\ UNCHANGED << resLen, head, workersCount, progressEnabled, contentLength,
                    isMultipartSupported, startRange, index, ranges, wgCounter, wPc,
                    wResp, combineI, file, result, panicked, ctxDone, samplerPc,
                    samplerK, totalDownloaded, consumer, lastSample >>

\* WriteTo, b.Reset(), second store: b.off = 0; then i++.
CombineResetOff ==
    /\ ~panicked /\ dlPc = "reset_off"
    /\ chunks' = [chunks EXCEPT ![combineI].off = 0]
    /\ combineI' = combineI + 1
    /\ dlPc' = "write"
    /\ UNCHANGED << resLen, head, workersCount, progressEnabled, contentLength,
                    isMultipartSupported, startRange, index, ranges, wgCounter, wPc,
                    wResp, file, result, panicked, ctxDone, samplerPc, samplerK,
                    totalDownloaded, consumer, lastSample >>

\* The loop over d.chunks is over: combineChunks, and Download, return the path.
CombineReturns ==
    /\ ~panicked /\ dlPc = "write"
    /\ ~(combineI < LenChunks)
    /\ Return("path")
    /\ UNCHANGED << resLen, head, workersCount, progressEnabled, contentLength,
                    isMultipartSupported, startRange, index, ranges, wgCounter, wPc,
                    wResp, chunks, combineI, file, panicked, samplerPc, samplerK,
                    totalDownloaded, consumer, lastSample >>

\* ------------------------------------------------------------------ progress

\* Buffer k is the destination of an io.Copy that is under way.
Copying(k) ==
    \/ dlPc = "single_copy" /\ k = 0
    \/ \E j \in 1..Len(wPc) : wPc[j] = "copying" /\ ranges[j].index = k

\* What chunk.Len() can read for buffer k. The read is not synchronised with the
\* writer: while io.Copy runs, Buffer.ReadFrom grows the slice by MinRead before
\* each read and cuts it back afterwards, and the sampler can see either length.
LenSet(k) ==
    IF Copying(k) THEN {BufLen(chunks[k]), BufLen(chunks[k]) + MinRead}
    ELSE {BufLen(chunks[k])}

\* select: ctx.Done() is closed, progress returns.
SamplerStops ==
    /\ ~panicked /\ samplerPc = "select"
    /\ ctxDone
    /\ samplerPc' = "stopped"
    /\ UNCHANGED << resLen, head, workersCount, progressEnabled, dlPc, contentLength,
                    isMultipartSupported, startRange, index, ranges, wgCounter, wPc,
                    wResp, chunks, combineI, file, result, panicked, ctxDone, samplerK,
                    totalDownloaded, consumer, lastSample >>

\* select: the default case; totalDownloaded := 0 and the range over d.chunks
\* starts.
SamplerDefault ==
    /\ ~panicked /\ samplerPc = "select"
    /\ ~ctxDone
    /\ samplerPc' = "read"
    /\ samplerK' = 0
    /\ totalDownloaded' = 0
    /\ UNCHANGED << resLen, head, workersCount, progressEnabled, dlPc, contentLength,
                    isMultipartSupported, startRange, index, ranges, wgCounter, wPc,
                    wResp, chunks, combineI, file, result, panicked, ctxDone, consumer,
                    lastSample >>

\* One iteration of the range over d.chunks; after the last one the sum is cut
\* to 100 and is ready to be sent.
SamplerRead ==
    /\ ~panicked /\ samplerPc = "read"
    /\ \E n \in LenSet(samplerK) : \E t \in TermSet(n, contentLength) :
          IF samplerK + 1 < LenChunks
          THEN /\ totalDownloaded' = totalDownloaded + t
               /\ samplerK' = samplerK + 1
               /\ UNCHANGED samplerPc
          ELSE /\ totalDownloaded' = Clamp(totalDownloaded + t)
               /\ samplerK' = 0
               /\ samplerPc' = "send"
    /\ UNCHANGED << resLen, head, workersCount, progressEnabled, dlPc, contentLength,
                    isMultipartSupported, startRange, index, ranges, wgCounter, wPc,
                    wResp, chunks, combineI, file, result, panicked, ctxDone, consumer,
                    lastSample >>

\* d.progressChan <- totalDownloaded: the channel is unbuffered, the send
\* completes when the consumer receives; then the sleep and the next round.
SamplerSend ==
    /\ ~panicked /\ samplerPc = "send"
    /\ consumer = "ranging"
    /\ lastSample' = {totalDownloaded}
    /\ samplerPc' = "select"
    /\ totalDownloaded' = 0
    /\ UNCHANGED << resLen, head, workersCount, progressEnabled, dlPc, contentLength,
                    isMultipartSupported, startRange, index, ranges, wgCounter, wPc,
                    wResp, chunks, combineI, file, result, panicked, ctxDone, samplerK,
                    consumer >>

\* ------------------------------------------------------------------ consumer

\* A receiver of ConsumeProgress() other than run's loop may stop receiving at
\* any time.
ConsumerStops ==
    /\ ~panicked /\ consumer = "ranging"
    /\ consumer' = "stopped"
    /\ UNCHANGED << resLen, head, workersCount, progressEnabled, dlPc, contentLength,
                    isMultipartSupported, startRange, index, ranges, wgCounter, wPc,
                    wResp, chunks, combineI, file, result, panicked, ctxDone,
                    samplerPc, samplerK, totalDownloaded, lastSample >>

\* ------------------------------------------------------------ specifications

DownloadStep ==
    \/ ProbeFails \/ ProbeReturns \/ Dispatch
    \/ SingleDoFails \/ SingleDo \/ SingleCopy \/ SingleCopyEOF \/ SingleCopyErr
    \/ ProcessMultipleStart \/ LaunchWorker \/ LoopExit \/ WaitReturns
    \/ CombineCreateFails \/ CombineCreate \/ CombineWrite \/ CombineWriteFails
    \/ CombineResetBuf \/ CombineResetOff \/ CombineReturns

WorkerStep ==
    \E j \in 1..Len(wPc) :
        \/ WorkerDoFails(j) \/ WorkerDo(j) \/ WorkerCopy(j)
        \/ WorkerCopyEOF(j) \/ WorkerCopyErr(j)

SamplerStep == SamplerStops \/ SamplerDefault \/ SamplerRead \/ SamplerSend

Next == DownloadStep \/ WorkerStep \/ SamplerStep \/ ConsumerStops

Spec == Init /\ [][Next]_vars

\* The planning loop of processMultiple alone, for every contentLength and
\* workersCount of the bounds and for the sample file of the README with the
\* default worker count: the goroutines are launched and never scheduled.
InitPlan ==
    /\ resLen \in (0..MaxPlanLen) \cup {ReadmeLength}
    /\ workersCount \in (1..MaxPlanWorkers) \cup {DefaultWorkers}
    /\ head = [err |-> FALSE, status |-> 200, length |-> TRUE, acceptRanges |-> "bytes"]
    /\ progressEnabled = FALSE
    /\ dlPc = "multi"
    /\ contentLength = resLen
    /\ isMultipartSupported = TRUE
    /\ chunks = NewChunks
    /\ samplerPc = "idle"
    /\ consumer = "none"
    /\ NoActivity

NextPlan == ProcessMultipleStart \/ LaunchWorker \/ LoopExit

PlanSpec == InitPlan /\ [][NextPlan]_vars

\* A buffer holding n bytes.
Filled(n) == [buf |-> [i \in 1..n |-> i], off |-> 0]

\* The sampler alone, over buffers of every length of the bounds that nobody
\* writes: the workers have returned and combineChunks has not started.
InitSample ==
    /\ resLen \in 1..MaxSampleLen
    /\ workersCount \in 1..MaxSampleChunks
    /\ head = [err |-> FALSE, status |-> 200, length |-> TRUE, acceptRanges |-> "bytes"]
    /\ progressEnabled = TRUE
    /\ dlPc = "wait"
    /\ contentLength = resLen
    /\ isMultipartSupported = TRUE
    /\ chunks \in [0..(workersCount - 1) -> {Filled(n) : n \in 0..MaxSampleLen}]
    /\ samplerPc = "select"
    /\ consumer = "ranging"
    /\ NoActivity

NextSample == SamplerDefault \/ SamplerRead \/ SamplerSend

SampleSpec == InitSample /\ [][NextSample]_vars

\* -------------------------------------------------------------------- claims

\* Download has returned a path.
ReturnedPath == dlPc = "returned" /\ result = "path"

\* Every GET that was issued was answered by the server with the bytes asked
\* for, and the body was read to its end.
AllFetchesServed == \A j \in 1..Len(wResp) : wResp[j] = "ok"

\* combineChunks is running.
Combining == dlPc \in {"combine", "write", "reset_buf", "reset_off"}

\* C1: for a resource of at least one byte whose GETs were all served in full,
\* a Download that returns a path has written exactly the bytes of the resource,
\* in multipart mode as in single-stream mode, so the two modes write the same
\* file.
C1_OutputIsResource ==
    (ReturnedPath /\ resLen >= 1 /\ AllFetchesServed) => file = Resource

\* C1 witness: a multipart download over two ranges has returned its path.
C1_Witness ==
    /\ ReturnedPath /\ AllFetchesServed
    /\ Len(ranges) >= 2
    /\ resLen >= 3
    /\ file = Resource

HeadFailed == head.err \/ ~StatusOK(head.status) \/ ~head.length

\* C3 (as claimed): after a failed HEAD probe Download does nothing but return
\* an error: no GET is issued, combineChunks never runs and no path is returned.
C3_FailedProbeStops ==
    HeadFailed =>
        /\ dlPc \in {"start", "returned"}
        /\ dlPc = "returned" => result = "error"
        /\ wResp = << >>

\* C4: while combineChunks runs, every goroutine that was launched has returned
\* and processSingle's own copy is over.
C4_CombineAfterJoin ==
    Combining => \A j \in 1..Len(wPc) : wPc[j] = "done"

\* C4 witness: combineChunks is writing after two goroutines were launched.
C4_Witness == dlPc = "write" /\ Len(wPc) >= 2

\* C5 (as claimed): a path is returned only for a complete file.
C5_PathMeansComplete == ReturnedPath => file = Resource

\* C6 (as claimed): for totalLen >= 1 every value received from the progress
\* channel is in 0..100.
C6_SampleInRange ==
    contentLength >= 1 => \A v \in lastSample : v \in 0..100

\* The sum of chunk.Len() over d.chunks[0..k].
RECURSIVE SumLen(_)
SumLen(k) == IF k < 0 THEN 0 ELSE BufLen(chunks[k]) + SumLen(k - 1)

\* C7 (as claimed): with the buffers holding totalLen bytes together, the sample
\* the sampler is about to send is 100.
C7_FullIsHundred ==
    (samplerPc = "send" /\ SumLen(LenChunks - 1) = contentLength)
        => totalDownloaded = 100

\* C8 (as claimed): once Download has returned and the sampler has stopped, the
\* consumer's range loop is over. Nothing is left to run in such a state, so a
\* loop that is still receiving then never ends.
C8_StreamEnds ==
    (dlPc = "returned" /\ samplerPc = "stopped") => consumer # "ranging"

\* The download cannot go on for a reason that has nothing to do with progress:
\* the process panicked, Download returned, or every launched goroutine has
\* returned and the WaitGroup counter is still positive.
DownloadOver ==
    \/ panicked
    \/ dlPc = "returned"
    \/ /\ dlPc = "wait"
       /\ wgCounter > 0
       /\ \A j \in 1..Len(wPc) : wPc[j] = "done"

\* C9: whatever the sampler and the consumer do, Download or one of its
\* goroutines can take its next step until the download is over: no step of
\* theirs waits for the sampler or for the consumer.
C9_ProgressNeverBlocks ==
    DownloadOver \/ ENABLED (DownloadStep \/ WorkerStep)

\* C9 witness: Download has returned its path while the sampler is blocked in
\* a send that nobody will receive.
C9_Witness ==
    /\ ReturnedPath
    /\ samplerPc = "send" /\ consumer = "stopped"
    /\ Len(ranges) >= 2

\* The planning loop is over for the README's sample file and five workers.
ReadmePlanned ==
    dlPc = "wait" /\ contentLength = ReadmeLength /\ workersCount = DefaultWorkers

\* The bounds of the ranges handed out, in order.
Bounds == [j \in 1..Len(ranges) |-> << ranges[j].start, ranges[j].end >>]

AllWorkersReturned == \A j \in 1..Len(wPc) : wPc[j] = "done"

\* C11 (as claimed): in processMultiple, once the loop is over and every
\* launched goroutine has returned, wg.Wait() can return: the counter that is
\* waited on counts the goroutines that were launched.
C11_JoinPasses ==
    (dlPc = "wait" /\ AllWorkersReturned /\ ~panicked) => JoinPassed

\* C12 (as claimed): no failure of a fetch takes the process down: the goroutine
\* returns and Download goes on to combineChunks.
C12_FetchFailureSurvived == ~panicked

\* The probe succeeded and Download has chosen between the two modes.
ModeChosen == ~HeadFailed /\ dlPc \notin {"start", "probed"}

\* Download went into processMultiple: it stands there, or ranges were handed out.
EnteredMultiple == dlPc \in {"multi", "loop", "wait"} \/ ranges # << >>

\* C13: after a successful probe Download is in processMultiple exactly when the
\* Accept-Ranges header was "bytes" and there is more than one worker; otherwise
\* it is in processSingle, where no range is handed out, no goroutine is launched
\* and at most one GET is issued.
C13_ModeChoice ==
    ModeChosen =>
        /\ EnteredMultiple = (head.acceptRanges = "bytes" /\ workersCount > 1)
        /\ ~EnteredMultiple => ranges = << >> /\ wPc = << >> /\ Len(wResp) <= 1

\* C13 witness: with Accept-Ranges: none and two workers the download was done
\* with a single GET.
C13_Witness ==
    /\ ReturnedPath
    /\ head.acceptRanges = "none" /\ workersCount > 1
    /\ ranges = << >> /\ Len(wResp) = 1

\* C14 (as claimed): the samples delivered during one download never decrease:
\* whenever a sample is delivered after an earlier one, it is at least as large.
\* Stated for resources of one byte or more, where every term of the sum is
\* defined.
C14_SamplesNeverDrop ==
    [][contentLength >= 1 =>
          \A v \in lastSample : \A w \in lastSample' : v <= w]_vars

\* The join of a multipart download has completed.
JoinCompleted == dlPc = "wait" /\ ranges # << >> /\ AllWorkersReturned /\ JoinPassed

\* The copy of a single-stream download has completed.
SingleCompleted == dlPc = "combine" /\ ranges = << >> /\ Len(wResp) = 1

\* C15 (as claimed): after a good probe, when every GET was served by a server
\* that honours Range and every body was read to its end, the buffer of each
\* range start-end holds exactly end - start + 1 bytes once the join has
\* completed, and in single-stream mode buffer 0 holds exactly contentLength
\* bytes.
C15_BufferLengths ==
    (~HeadFailed /\ AllFetchesServed) =>
        /\ JoinCompleted =>
              \A j \in 1..Len(ranges) :
                  BufLen(chunks[ranges[j].index]) = ranges[j].end - ranges[j].start + 1
        /\ SingleCompleted => BufLen(chunks[0]) = contentLength

\* C16 (as claimed): the sample the sampler is about to send is the percentage
\* of the sum of the buffer lengths, rounded down and cut to 100:
\* min(100, floor(sum * 100 / contentLength)).
C16_SampleIsFloorOfSum ==
    samplerPc = "send" =>
        totalDownloaded = Min(100, (SumLen(LenChunks - 1) * 100) \div contentLength)

\* C17: for every contentLength and every workersCount of two or more, each
\* goroutine launched by processMultiple gets an index inside d.chunks, no two
\* get the same index, and the goroutine with index i fetches the i-th range in
\* increasing order of start; so no two goroutines write the same buffer.
C17_OwnBuffer ==
    workersCount >= 2 =>
        /\ \A j \in 1..Len(ranges) : ranges[j].index \in DOMAIN chunks
        /\ \A j, k \in 1..Len(ranges) : j # k => ranges[j].index # ranges[k].index
        /\ \A j \in 1..Len(ranges) :
              ranges[j].index =
                  Cardinality({k \in 1..Len(ranges) : ranges[k].start < ranges[j].start})

\* C17 witness: the loop is over and has launched as many goroutines as there
\* are buffers, three or more, the last one with the last index.
C17_Witness ==
    /\ dlPc = "wait"
    /\ workersCount >= 3
    /\ Len(ranges) = workersCount
    /\ ranges[Len(ranges)].index = workersCount - 1

\* C18 (as claimed): once cancel() has run, a sampler that was started and has
\* not stopped can always take its next step, whether or not the consumer is
\* still receiving. A sampler that cannot step in such a state never stops,
\* however fairly it is scheduled: nothing else changes what it waits for.
C18_SamplerStopsAfterCancel ==
    (ctxDone /\ ~panicked) =>
        (samplerPc \in {"idle", "stopped"} \/ ENABLED SamplerStep)

\* The content of a buffer: its bytes from the read offset on.
Content(b) == [i \in 1..(Len(b.buf) - b.off) |-> b.buf[b.off + i]]

\* The contents of d.chunks[i..], one after the other.
RECURSIVE Rest(_)
Rest(i) == IF i >= LenChunks THEN << >> ELSE Content(chunks[i]) \o Rest(i + 1)

\* What the output file holds once combineChunks is done with the buffers left:
\* before os.Create, all the buffers; afterwards the file so far followed by
\* the buffers from i on.
Pending == IF dlPc = "combine" THEN Rest(0) ELSE file \o Rest(combineI)

\* C19: every step of combineChunks that does not fail moves the content of the
\* buffer at i, whole and once, to the end of the file and keeps the rest, with i
\* going up one at a time, so a path is returned only after the last buffer, with
\* the file holding chunks[0] ++ chunks[1] ++ ... as they were when the join
\* completed; a step that ends combineChunks before the last buffer returns an
\* error.
C19_CombineInOrder ==
    [][Combining =>
          /\ ~(dlPc' = "returned" /\ result' = "error") => Pending' = Pending
          /\ combineI' \in {combineI, combineI + 1} \/ dlPc = "combine"
          /\ ReturnedPath' => combineI' = LenChunks /\ file' = Pending
          /\ (dlPc' = "returned" /\ combineI < LenChunks) => result' = "error"]_vars

\* C19 witness: combineChunks has written two buffers holding four bytes
\* together and returned the path.
C19_Witness ==
    /\ ReturnedPath
    /\ LenChunks = 2 /\ combineI = 2
    /\ Len(file) = 4
====
